---- MODULE Spec2Model ----
(***************************************************************************)
(* A model of the C++ plagiarism checker (Document, RabinKarpChecker,      *)
(* JaccardChecker and the score combiner of main) and of two parts of the  *)
(* front end: the PlagiarismGauge component and handleCheck of the Checker *)
(* page.                                                                   *)
(*                                                                         *)
(* Strings are sequences of byte values.  Every offset kept in the state   *)
(* (indexMap entries, lineStarts, span bounds) is 0-based as in the C++    *)
(* code; the character at C++ index i of a string s is s[i + 1].           *)
(* A double that the code computes is kept as an exact fraction <<n, d>>   *)
(* with d > 0.                                                             *)
(***************************************************************************)
EXTENDS Integers, Sequences, FiniteSets, TLC

VARIABLES
    pc,          \* position of the run
    rawA, rawB,  \* the two input texts (file contents)
    docA, docB,  \* the Documents built from them
    spans,       \* RabinKarpChecker::spans
    rkScore,     \* main: rkScore
    jcScore,     \* main: jcScore
    localScore,  \* main: localScore
    jcShinglesA, \* JaccardChecker::shinglesA of the instance jc
    jcShinglesB, \* JaccardChecker::shinglesB of the instance jc
    call,        \* the last call of a method and what it returned
    hashTrace,   \* the values findOccurrences stored in h, p and t on that call
    handed,      \* the spans score handed to merge_or_add, in order
    score,          \* PlagiarismGauge: the score prop, in tenths
    animatedScore,  \* PlagiarismGauge: animatedScore
    timers,         \* the timeouts and intervals of the gauge that are armed
    effect,         \* the number of the run of the effect that is current
    writer,         \* the run of the effect whose code wrote animatedScore last
    changes,        \* how often the score prop has changed
    selectedFile,        \* Checker: selectedFile
    secondFile,          \* Checker: secondFile
    isChecking,          \* Checker: isChecking
    plagiarismScore,     \* Checker: plagiarismScore
    checkResult,         \* Checker: checkResult
    isBackendConnected,  \* Checker: isBackendConnected
    health,              \* whether the promise of healthCheck is pending
    check,               \* the call of handleCheck that waits at an await
    toasts,              \* the title and the description of the last toast
    finished             \* what the last call of handleCheck to return did

gaugeVars == <<score, animatedScore, timers, effect, writer, changes>>

pageVars == <<selectedFile, secondFile, isChecking, plagiarismScore, checkResult,
              isBackendConnected, health, check, toasts, finished>>

uiVars == <<gaugeVars, pageVars>>

vars == <<pc, rawA, rawB, docA, docB, spans, rkScore, jcScore, localScore,
          jcShinglesA, jcShinglesB, call, hashTrace, handed, gaugeVars, pageVars>>

\* null, and a value that is not null
Null == <<>>
Some(x) == <<x>>

\* no run of handleCheck has returned yet
NoFinish == [request |-> "none", outcome |-> "none"]

\* the front end is not running
NoFrontEnd ==
    /\ score = 0
    /\ animatedScore = 0
    /\ timers = {}
    /\ effect = 0
    /\ writer = 0
    /\ changes = 0
    /\ selectedFile = Null
    /\ secondFile = Null
    /\ isChecking = FALSE
    /\ plagiarismScore = Null
    /\ checkResult = Null
    /\ isBackendConnected = Null
    /\ health = FALSE
    /\ check = Null
    /\ toasts = Null
    /\ finished = NoFinish

(***************************************************************************)
(* Characters                                                              *)
(***************************************************************************)
NL == 10
SP == 32

\* std::isspace in the "C" locale: \t \n \v \f \r (9..13) and space
isspace(c) == (c >= 9 /\ c <= 13) \/ c = SP

\* std::tolower in the "C" locale: 'A'..'Z' (65..90) move to 'a'..'z'
tolower(c) == IF c >= 65 /\ c <= 90 THEN c + 32 ELSE c

Min(x, y) == IF x < y THEN x ELSE y
Max(x, y) == IF x > y THEN x ELSE y

\* std::string::substr(pos, n) for 0 <= pos <= size: clamps at the end
substr(s, pos, n) == SubSeq(s, pos + 1, Min(pos + n, Len(s)))

(***************************************************************************)
(* Document                                                                *)
(***************************************************************************)
\* preprocessStep with the map entry of a collapsed run moved to the last
\* whitespace character of the run
preprocessStep_lastOfRun(s, st) ==
    LET i == st.i
        c == s[i + 1]
    IN
    IF c = NL
      THEN [i |-> i + 1, out |-> Append(st.out, NL), map |-> Append(st.map, i),
            lastSpace |-> FALSE]
      ELSE IF isspace(c)
        THEN IF ~st.lastSpace
               THEN [i |-> i + 1, out |-> Append(st.out, SP), map |-> Append(st.map, i),
                     lastSpace |-> TRUE]
               ELSE [st EXCEPT !.i = i + 1, !.map[Len(st.map)] = i]
        ELSE [i |-> i + 1, out |-> Append(st.out, tolower(c)), map |-> Append(st.map, i),
              lastSpace |-> FALSE]

\* preprocessStep without the newline branch: a newline is whitespace like
\* any other and is collapsed into the run
preprocessStep_newlineAsSpace(s, st) ==
    LET i == st.i
        c == s[i + 1]
    IN
    IF isspace(c)
      THEN IF ~st.lastSpace
             THEN [i |-> i + 1, out |-> Append(st.out, SP), map |-> Append(st.map, i),
                   lastSpace |-> TRUE]
             ELSE [st EXCEPT !.i = i + 1]
      ELSE [i |-> i + 1, out |-> Append(st.out, tolower(c)), map |-> Append(st.map, i),
            lastSpace |-> FALSE]

\* one iteration of the loop of Document::preprocess; st holds the loop
\* index i, out, map and lastSpace
preprocessStep(s, st) ==
    LET i == st.i
        c == s[i + 1]
    IN
    IF c = NL
      THEN [i |-> i + 1, out |-> Append(st.out, NL), map |-> Append(st.map, i),
            lastSpace |-> FALSE]
      ELSE IF isspace(c)
        THEN IF ~st.lastSpace
               THEN [i |-> i + 1, out |-> Append(st.out, SP), map |-> Append(st.map, i),
                     lastSpace |-> TRUE]
               ELSE [st EXCEPT !.i = i + 1]
        ELSE [i |-> i + 1, out |-> Append(st.out, tolower(c)), map |-> Append(st.map, i),
              lastSpace |-> FALSE]

RECURSIVE preprocessLoop(_, _)
preprocessLoop(s, st) ==
    IF st.i >= Len(s) THEN st ELSE preprocessLoop(s, preprocessStep(s, st))

\* Document::preprocess(s, out, map)
preprocess(s) ==
    preprocessLoop(s, [i |-> 0, out |-> <<>>, map |-> <<>>, lastSpace |-> FALSE])

\* the loop of Document::calculateLineStarts; st holds i and lineStarts
RECURSIVE calculateLineStartsLoop(_, _)
calculateLineStartsLoop(text, st) ==
    IF st.i >= Len(text) THEN st.lineStarts
    ELSE calculateLineStartsLoop(text,
             [i |-> st.i + 1,
              lineStarts |-> IF text[st.i + 1] = NL THEN Append(st.lineStarts, st.i + 1)
                             ELSE st.lineStarts])

\* calculateLineStarts recording the offset of each newline itself instead of
\* the offset after it (push_back(i) for push_back(i + 1))
calculateLineStarts_atNewline(text) ==
    LET ls == calculateLineStartsLoop(text, [i |-> 0, lineStarts |-> <<0>>])
    IN [j \in 1..Len(ls) |-> IF j = 1 THEN 0 ELSE ls[j] - 1]

\* Document::calculateLineStarts
calculateLineStarts(text) ==
    calculateLineStartsLoop(text, [i |-> 0, lineStarts |-> <<0>>])

\* Document::Document(std::string t)
Document(t) ==
    LET p == preprocess(t) IN
    [raw |-> t, text |-> p.out, indexMap |-> p.map,
     lineStarts |-> calculateLineStarts(p.out)]

RECURSIVE getLineNumberLoop(_, _, _)
getLineNumberLoop(lineStarts, position, i) ==
    IF i >= Len(lineStarts) THEN Len(lineStarts)
    ELSE IF i + 1 < Len(lineStarts) /\ position < lineStarts[i + 2]
           THEN i + 1
           ELSE getLineNumberLoop(lineStarts, position, i + 1)

\* getLineNumber comparing with <= instead of <: an offset that is the start
\* of a line is counted to the line before
getLineNumber_startToPreviousLine(d, position) ==
    getLineNumberLoop(d.lineStarts, position - 1, 0)

\* Document::getLineNumber(position)
getLineNumber(d, position) == getLineNumberLoop(d.lineStarts, position, 0)

\* rawSlice cutting raw at the canonical offsets themselves, without going
\* through indexMap
rawSlice_canonicalOffsets(d, startProcessed0, endProcessed0) ==
    LET startProcessed == IF startProcessed0 < 0 THEN 0 ELSE startProcessed0
        endProcessed == IF endProcessed0 < startProcessed THEN startProcessed
                        ELSE endProcessed0
    IN
    IF startProcessed >= Len(d.indexMap) THEN <<>>
    ELSE
      LET rawStart == startProcessed
          rawEnd == Min(Max(endProcessed, startProcessed + 1), Len(d.raw))
      IN
      IF rawStart >= Len(d.raw) \/ rawEnd <= rawStart THEN <<>>
      ELSE substr(d.raw, rawStart, rawEnd - rawStart)

\* Document::rawSlice(startProcessed, endProcessed)
rawSlice(d, startProcessed0, endProcessed0) ==
    LET startProcessed == IF startProcessed0 < 0 THEN 0 ELSE startProcessed0
        endProcessed == IF endProcessed0 < startProcessed THEN startProcessed
                        ELSE endProcessed0
    IN
    IF startProcessed >= Len(d.indexMap) THEN <<>>
    ELSE
      LET rawStart == d.indexMap[startProcessed + 1]
          rawEndIdx0 == Min(endProcessed, Len(d.indexMap)) - 1
          rawEndIdx == IF rawEndIdx0 < startProcessed THEN startProcessed ELSE rawEndIdx0
          rawEnd == Min(d.indexMap[rawEndIdx + 1] + 1, Len(d.raw))
      IN
      IF rawStart < 0 \/ rawStart >= Len(d.raw) \/ rawEnd <= rawStart THEN <<>>
      ELSE substr(d.raw, rawStart, rawEnd - rawStart)

\* rawSliceReads without the early return for a start at or beyond the end of
\* indexMap
rawSliceReads_noSizeGuard(d, startProcessed0, endProcessed0) ==
    LET startProcessed == IF startProcessed0 < 0 THEN 0 ELSE startProcessed0
        endProcessed == IF endProcessed0 < startProcessed THEN startProcessed
                        ELSE endProcessed0
        rawEndIdx0 == Min(endProcessed, Len(d.indexMap)) - 1
        rawEndIdx == IF rawEndIdx0 < startProcessed THEN startProcessed ELSE rawEndIdx0
    IN [indexMap |-> {startProcessed, rawEndIdx}, raw |-> {}]

\* the element indices that Document::rawSlice(startProcessed, endProcessed)
\* reads: of indexMap (operator[] at rawStart and rawEnd) and of raw (substr)
rawSliceReads(d, startProcessed0, endProcessed0) ==
    LET startProcessed == IF startProcessed0 < 0 THEN 0 ELSE startProcessed0
        endProcessed == IF endProcessed0 < startProcessed THEN startProcessed
                        ELSE endProcessed0
    IN
    IF startProcessed >= Len(d.indexMap) THEN [indexMap |-> {}, raw |-> {}]
    ELSE
      LET rawStart == d.indexMap[startProcessed + 1]
          rawEndIdx0 == Min(endProcessed, Len(d.indexMap)) - 1
          rawEndIdx == IF rawEndIdx0 < startProcessed THEN startProcessed ELSE rawEndIdx0
          rawEnd == Min(d.indexMap[rawEndIdx + 1] + 1, Len(d.raw))
      IN
      [indexMap |-> {startProcessed, rawEndIdx},
       raw |-> IF rawStart < 0 \/ rawStart >= Len(d.raw) \/ rawEnd <= rawStart THEN {}
               ELSE rawStart..(rawEnd - 1)]

(***************************************************************************)
(* RabinKarpChecker                                                        *)
(***************************************************************************)
mod == 1000000007
base == 257
window == 8
stride == 4

\* (x * y) % mod for 0 <= x < mod and 0 <= y <= base.  The code multiplies in
\* 64 bits; here the product is split as y * (x % q) - r * (x \div q) with
\* q = mod \div y and r = mod % y (Schrage), which is congruent to x * y
\* modulo mod and lies strictly between -mod and mod, so that no
\* intermediate value leaves the 32-bit integers of TLC.
MulMod(x, y) ==
    IF y = 0 THEN 0
    ELSE LET q == mod \div y
             r == mod % y
             d == y * (x % q) - r * (x \div q)
         IN IF d < 0 THEN d + mod ELSE d

\* h = base^(m-1) % mod
RECURSIVE hashPower(_, _, _)
hashPower(m, i, h) ==
    IF i >= m - 1 THEN h ELSE hashPower(m, i + 1, MulMod(h, base))

\* the polynomial hash of s[0..m): p and t of findOccurrences
RECURSIVE hashPrefix(_, _, _, _)
hashPrefix(s, m, i, acc) ==
    IF i >= m THEN acc
    ELSE hashPrefix(s, m, i + 1, (MulMod(acc, base) + s[i + 1]) % mod)

\* rollTerm without the "+ mod" that keeps the difference from going negative
rollTerm_noAddMod(text, i, h, t) == t - MulMod(h, text[i + 1])

\* the subtraction term of the rolling update: t - text[i] * h % mod + mod
rollTerm(text, i, h, t) == t - MulMod(h, text[i + 1]) + mod

\* the rolling update of t when the window moves from i to i + 1
rollHash(text, m, i, h, t) ==
    LET inner == rollTerm(text, i, h, t)
    IN (MulMod(inner % mod, base) + text[i + m + 1]) % mod

\* findOccurrencesLoop reporting a position as soon as the hashes agree,
\* without the character-by-character comparison
RECURSIVE findOccurrencesLoop_hashOnly(_, _, _, _, _, _)
findOccurrencesLoop_hashOnly(text, pattern, i, h, p, t) ==
    LET n == Len(text)
        m == Len(pattern)
        here == IF p = t THEN <<i>> ELSE <<>>
    IN IF i > n - m THEN <<>>
       ELSE IF i < n - m
              THEN here \o findOccurrencesLoop_hashOnly(text, pattern, i + 1, h, p,
                                                        rollHash(text, m, i, h, t))
              ELSE here

RECURSIVE findOccurrencesLoop(_, _, _, _, _, _)
findOccurrencesLoop(text, pattern, i, h, p, t) ==
    LET n == Len(text)
        m == Len(pattern)
        here == IF p = t /\ SubSeq(text, i + 1, i + m) = pattern THEN <<i>> ELSE <<>>
    IN IF i > n - m THEN <<>>
       ELSE IF i < n - m
              THEN here \o findOccurrencesLoop(text, pattern, i + 1, h, p,
                                               rollHash(text, m, i, h, t))
              ELSE here

\* RabinKarpChecker::findOccurrences(text, pattern)
findOccurrences(text, pattern) ==
    LET n == Len(text)
        m == Len(pattern)
    IN IF m = 0 \/ n < m THEN <<>>
       ELSE findOccurrencesLoop(text, pattern, 0, hashPower(m, 0, 1),
                                hashPrefix(pattern, m, 0, 0), hashPrefix(text, m, 0, 0))

\* the values findOccurrences stores on one call: h after each step of its
\* loop (starting from 1), p and t after each step of the prefix loop
\* (starting from 0), t at every window position i = 0..n-m (rolled), the
\* subtraction term of every rolling update, and the pairs of factors of
\* every product it forms
hashRun(text, pattern) ==
    LET n == Len(text)
        m == Len(pattern)
    IN IF m = 0 \/ n < m THEN [h |-> <<>>, p |-> <<>>, t |-> <<>>, rolled |-> <<>>,
                               terms |-> <<>>, factors |-> {}]
       ELSE
         LET hs[j \in 1..m] == IF j = 1 THEN 1 ELSE MulMod(hs[j - 1], base)
             ps[j \in 1..(m + 1)] ==
                 IF j = 1 THEN 0 ELSE (MulMod(ps[j - 1], base) + pattern[j - 1]) % mod
             ts[j \in 1..(m + 1)] ==
                 IF j = 1 THEN 0 ELSE (MulMod(ts[j - 1], base) + text[j - 1]) % mod
             h == hs[m]
             rolled[j \in 1..(n - m + 1)] ==
                 IF j = 1 THEN ts[m + 1] ELSE rollHash(text, m, j - 2, h, rolled[j - 1])
             terms == [j \in 1..(n - m) |-> rollTerm(text, j - 1, h, rolled[j])]
         IN [h |-> hs, p |-> ps, t |-> ts, rolled |-> rolled, terms |-> terms,
             factors |-> {<<hs[j], base>> : j \in 1..(m - 1)}
                         \cup {<<ps[j], base>> : j \in 1..m}
                         \cup {<<ts[j], base>> : j \in 1..m}
                         \cup {<<text[j], h>> : j \in 1..(n - m)}
                         \cup {<<base, terms[j]>> : j \in 1..(n - m)}]

\* a MatchSpan {sA, eA, sB, eB, a.rawSlice(sA, eA), b.rawSlice(sB, eB),
\*              a.getLineNumber(sA), b.getLineNumber(sB)}
MatchSpan(a, b, sA, eA, sB, eB) ==
    [startA |-> sA, endA |-> eA, startB |-> sB, endB |-> eB,
     textA |-> rawSlice(a, sA, eA), textB |-> rawSlice(b, sB, eB),
     lineA |-> getLineNumber(a, sA), lineB |-> getLineNumber(b, sB)]

\* the overlap test of merge_or_add against an existing span sp
overlapBoth(sp, sA, eA, sB, eB) ==
    LET overlapB == ~(eB <= sp.startB \/ sB >= sp.endB)
        overlapA == ~(eA <= sp.startA \/ sA >= sp.endA)
    IN overlapB /\ overlapA

\* the lambda merge_or_add of RabinKarpChecker::score
merge_or_add(a, b, sps, sA, eA, sB, eB) ==
    LET hits == {n \in 1..Len(sps) : overlapBoth(sps[n], sA, eA, sB, eB)}
    IN IF hits # {}
         THEN LET first == CHOOSE x \in hits : \A y \in hits : x <= y
                  sp == sps[first]
              IN [sps EXCEPT ![first] =
                    MatchSpan(a, b, Min(sp.startA, sA), Max(sp.endA, eA),
                              Min(sp.startB, sB), Max(sp.endB, eB))]
         ELSE Append(sps, MatchSpan(a, b, sA, eA, sB, eB))

\* "Extend backwards": how many characters the match grows to the left
RECURSIVE extendBack(_, _, _, _)
extendBack(ta, tb, startA, startB) ==
    IF startA > 0 /\ startB > 0 /\ ta[startA] = tb[startB]
      THEN 1 + extendBack(ta, tb, startA - 1, startB - 1)
      ELSE 0

\* "Extend forwards": how many characters the match grows to the right
RECURSIVE extendForward(_, _, _, _)
extendForward(ta, tb, endA, endB) ==
    IF endA < Len(ta) /\ endB < Len(tb) /\ ta[endA + 1] = tb[endB + 1]
      THEN 1 + extendForward(ta, tb, endA + 1, endB + 1)
      ELSE 0

\* the loop "for (int startB : occ)" for the window of A at i; st holds the
\* position j in occ and the spans
RECURSIVE occLoop(_, _, _, _, _)
occLoop(a, b, i, occ, st) ==
    IF st.j > Len(occ) THEN st.spans
    ELSE LET startB == occ[st.j]
             back == extendBack(a.text, b.text, i, startB)
             fwd == extendForward(a.text, b.text, i + window, startB + window)
         IN occLoop(a, b, i, occ,
                    [j |-> st.j + 1,
                     spans |-> merge_or_add(a, b, st.spans, i - back, i + window + fwd,
                                            startB - back, startB + window + fwd)])

\* windowStep advancing by one character instead of by the stride
windowStep_everyOffset(a, b, st) ==
    LET pattern == substr(a.text, st.i, window)
        occ == findOccurrences(b.text, pattern)
    IN [i |-> st.i + 1,
        spans |-> IF occ # <<>>
                    THEN occLoop(a, b, st.i, occ, [j |-> 1, spans |-> st.spans])
                    ELSE st.spans,
        total |-> st.total + 1,
        matched |-> IF occ # <<>> THEN st.matched + 1 ELSE st.matched]

\* one iteration of the window loop of the general path; st holds i, the
\* spans, total and matched
windowStep(a, b, st) ==
    LET pattern == substr(a.text, st.i, window)
        occ == findOccurrences(b.text, pattern)
    IN [i |-> st.i + stride,
        spans |-> IF occ # <<>>
                    THEN occLoop(a, b, st.i, occ, [j |-> 1, spans |-> st.spans])
                    ELSE st.spans,
        total |-> st.total + 1,
        matched |-> IF occ # <<>> THEN st.matched + 1 ELSE st.matched]

RECURSIVE windowLoop(_, _, _)
windowLoop(a, b, st) ==
    IF st.i + window > Len(a.text) THEN st ELSE windowLoop(a, b, windowStep(a, b, st))

\* number of positions i < minLen with a.text[i] == b.text[i]
equalPositions(ta, tb, minLen) ==
    Cardinality({i \in 1..minLen : ta[i] = tb[i]})

\* identicalPath that returns 100 without recording the span
identicalPath_noSpan(a, b) == [score |-> <<100, 1>>, spans |-> <<>>]

\* score, "For identical files, return 100%": one span over both whole texts
identicalPath(a, b) ==
    [score |-> <<100, 1>>,
     spans |-> <<MatchSpan(a, b, 0, Len(a.text), 0, Len(b.text))>>]

\* shortPath dividing by the length of the longer text
shortPath_overMaxLen(a, b) ==
    LET minLen == Min(Len(a.text), Len(b.text))
        maxLen == Max(Len(a.text), Len(b.text))
        matches == equalPositions(a.text, b.text, minLen)
    IN IF minLen > 0
         THEN [score |-> <<matches * 100, maxLen>>,
               spans |-> <<MatchSpan(a, b, 0, minLen, 0, minLen)>>]
         ELSE [score |-> <<0, 1>>, spans |-> <<>>]

\* shortPath with its span drawn over the longer text
shortPath_spanOverMaxLen(a, b) ==
    LET minLen == Min(Len(a.text), Len(b.text))
        maxLen == Max(Len(a.text), Len(b.text))
        matches == equalPositions(a.text, b.text, minLen)
    IN IF minLen > 0
         THEN [score |-> <<matches * 100, minLen>>,
               spans |-> <<MatchSpan(a, b, 0, maxLen, 0, maxLen)>>]
         ELSE [score |-> <<0, 1>>, spans |-> <<>>]

\* score, "For very short texts, do character-by-character comparison"
shortPath(a, b) ==
    LET minLen == Min(Len(a.text), Len(b.text))
        matches == equalPositions(a.text, b.text, minLen)
    IN IF minLen > 0
         THEN [score |-> <<matches * 100, minLen>>,
               spans |-> <<MatchSpan(a, b, 0, minLen, 0, minLen)>>]
         ELSE [score |-> <<0, 1>>, spans |-> <<>>]

\* score, the sliding-window path and its final matched * 100.0 / total
generalPath(a, b) ==
    LET w == windowLoop(a, b, [i |-> 0, spans |-> <<>>, total |-> 0, matched |-> 0])
    IN IF w.total = 0 THEN [score |-> <<0, 1>>, spans |-> w.spans]
       ELSE [score |-> <<w.matched * 100, w.total>>, spans |-> w.spans]

\* RabinKarpChecker::score(a, b): the returned double and the spans it leaves
RabinKarpChecker_score(a, b) ==
    IF a.text = b.text THEN identicalPath(a, b)
    ELSE IF Len(a.text) < window \/ Len(b.text) < window THEN shortPath(a, b)
    ELSE generalPath(a, b)

\* the statements of RabinKarpChecker::score after spans.clear(), run on an
\* instance whose member spans holds sps
scoreBody(sps, a, b) ==
    IF a.text = b.text
      THEN [score |-> <<100, 1>>,
            spans |-> Append(sps, MatchSpan(a, b, 0, Len(a.text), 0, Len(b.text)))]
    ELSE IF Len(a.text) < window \/ Len(b.text) < window
      THEN LET minLen == Min(Len(a.text), Len(b.text))
               matches == equalPositions(a.text, b.text, minLen)
           IN IF minLen > 0
                THEN [score |-> <<matches * 100, minLen>>,
                      spans |-> Append(sps, MatchSpan(a, b, 0, minLen, 0, minLen))]
                ELSE [score |-> <<0, 1>>, spans |-> sps]
    ELSE LET w == windowLoop(a, b, [i |-> 0, spans |-> sps, total |-> 0, matched |-> 0])
         IN IF w.total = 0 THEN [score |-> <<0, 1>>, spans |-> w.spans]
            ELSE [score |-> <<w.matched * 100, w.total>>, spans |-> w.spans]

\* score without the spans.clear() at its start
RabinKarpChecker_call_noClear(sps, a, b) == scoreBody(sps, a, b)

\* rk.score(a, b) on an instance whose member spans holds sps: spans.clear()
\* and the rest of the body; the returned double and the member afterwards
RabinKarpChecker_call(sps, a, b) == scoreBody(<<>>, a, b)

\* handedForWindow extending only the first occurrence; the later ones are
\* handed over as the bare seed window
handedForWindow_firstOnly(a, b, i, occ) ==
    [j \in 1..Len(occ) |->
        LET back == IF j = 1 THEN extendBack(a.text, b.text, i, occ[j]) ELSE 0
            fwd == IF j = 1
                     THEN extendForward(a.text, b.text, i + window, occ[j] + window)
                     ELSE 0
        IN [seedA |-> i, seedB |-> occ[j],
            startA |-> i - back, endA |-> i + window + fwd,
            startB |-> occ[j] - back, endB |-> occ[j] + window + fwd]]

\* the arguments of the merge_or_add calls for the window of A at i, one per
\* occurrence in occ, each with the seed (i, startB) it grew from
handedForWindow(a, b, i, occ) ==
    [j \in 1..Len(occ) |->
        LET back == extendBack(a.text, b.text, i, occ[j])
            fwd == extendForward(a.text, b.text, i + window, occ[j] + window)
        IN [seedA |-> i, seedB |-> occ[j],
            startA |-> i - back, endA |-> i + window + fwd,
            startB |-> occ[j] - back, endB |-> occ[j] + window + fwd]]

RECURSIVE handedLoop(_, _, _)
handedLoop(a, b, st) ==
    IF st.i + window > Len(a.text) THEN st.handed
    ELSE handedLoop(a, b,
             [i |-> st.i + stride,
              handed |-> st.handed \o
                  handedForWindow(a, b, st.i,
                      findOccurrences(b.text, substr(a.text, st.i, window)))])

\* the arguments of all merge_or_add calls of score(a, b), in call order; the
\* identical-text and short-text paths make none
handedSpans(a, b) ==
    IF a.text = b.text \/ Len(a.text) < window \/ Len(b.text) < window THEN <<>>
    ELSE handedLoop(a, b, [i |-> 0, handed |-> <<>>])

(***************************************************************************)
(* JaccardChecker                                                          *)
(***************************************************************************)
k == 3
boostBelow == 20

\* Document::toLower
toLower(s) == [i \in 1..Len(s) |-> tolower(s[i])]

\* JaccardChecker::makeShingles(s, k), as the set score inserts them into
makeShingles(s, kk) ==
    IF Len(s) < kk THEN {}
    ELSE {substr(s, i, kk) : i \in 0..(Len(s) - kk)}

\* JaccardChecker::score counting the intersection over the shingle list of a
\* (one per position, repeats included) instead of over the set
JaccardChecker_score_dupInter(a, b) ==
    IF a.text = b.text THEN <<100, 1>>
    ELSE LET lowerA == toLower(a.text)
             shinglesA == makeShingles(lowerA, k)
             shinglesB == makeShingles(toLower(b.text), k)
             inter == Cardinality({i \in 0..(Len(lowerA) - k) :
                                     substr(lowerA, i, k) \in shinglesB})
             uni == Cardinality(shinglesA) + Cardinality(shinglesB) - inter
         IN IF shinglesA = {} /\ shinglesB = {} THEN <<100, 1>>
            ELSE IF shinglesA = {} \/ shinglesB = {} THEN <<0, 1>>
            ELSE IF inter * 100 > 0 /\ inter * 100 < boostBelow * uni
                   THEN <<boostBelow * uni + 80 * inter, uni>>
                   ELSE <<inter * 100, uni>>

\* JaccardChecker::score without the low-similarity rescaling
JaccardChecker_score_noBoost(a, b) ==
    IF a.text = b.text THEN <<100, 1>>
    ELSE LET shinglesA == makeShingles(toLower(a.text), k)
             shinglesB == makeShingles(toLower(b.text), k)
             inter == Cardinality({sh \in shinglesA : sh \in shinglesB})
             uni == Cardinality(shinglesA) + Cardinality(shinglesB) - inter
         IN IF shinglesA = {} /\ shinglesB = {} THEN <<100, 1>>
            ELSE IF shinglesA = {} \/ shinglesB = {} THEN <<0, 1>>
            ELSE <<inter * 100, uni>>

\* JaccardChecker::score(a, b)
JaccardChecker_score(a, b) ==
    IF a.text = b.text THEN <<100, 1>>
    ELSE LET shinglesA == makeShingles(toLower(a.text), k)
             shinglesB == makeShingles(toLower(b.text), k)
             inter == Cardinality({sh \in shinglesA : sh \in shinglesB})
             uni == Cardinality(shinglesA) + Cardinality(shinglesB) - inter
         IN IF shinglesA = {} /\ shinglesB = {} THEN <<100, 1>>
            ELSE IF shinglesA = {} \/ shinglesB = {} THEN <<0, 1>>
            ELSE IF inter * 100 > 0 /\ inter * 100 < boostBelow * uni
                   THEN <<boostBelow * uni + 80 * inter, uni>>
                   ELSE <<inter * 100, uni>>

\* the members shinglesA and shinglesB after JaccardChecker::score(a, b) on
\* an instance that held shA and shB: untouched when the texts are identical
\* (the return precedes the clear()), else cleared and filled from a and b
JaccardChecker_members(shA, shB, a, b) ==
    IF a.text = b.text THEN [shinglesA |-> shA, shinglesB |-> shB]
    ELSE [shinglesA |-> makeShingles(toLower(a.text), k),
          shinglesB |-> makeShingles(toLower(b.text), k)]

\* JaccardChecker::score from "if (shinglesA.empty() && ..." on, computed
\* from the two member sets
scoreOfShingles(shA, shB) ==
    LET inter == Cardinality({sh \in shA : sh \in shB})
        uni == Cardinality(shA) + Cardinality(shB) - inter
    IN IF shA = {} /\ shB = {} THEN <<100, 1>>
       ELSE IF shA = {} \/ shB = {} THEN <<0, 1>>
       ELSE IF inter * 100 > 0 /\ inter * 100 < boostBelow * uni
              THEN <<boostBelow * uni + 80 * inter, uni>>
              ELSE <<inter * 100, uni>>

\* jc.score(a, b) on an instance whose members hold shA and shB: the returned
\* double and the members afterwards
JaccardChecker_call(shA, shB, a, b) ==
    LET members == JaccardChecker_members(shA, shB, a, b)
    IN [score |-> IF a.text = b.text THEN <<100, 1>>
                  ELSE scoreOfShingles(members.shinglesA, members.shinglesB),
        shinglesA |-> members.shinglesA,
        shinglesB |-> members.shinglesB]

(***************************************************************************)
(* main                                                                    *)
(***************************************************************************)
\* the combiner with Rabin-Karp as primary: 0.8 * rkScore + 0.2 * jcScore when
\* rkScore > 0, else rkScore
combine_rkPrimary(a, b, rk, jc) ==
    IF rk[1] > 0 THEN <<4 * rk[1] * jc[2] + jc[1] * rk[2], 5 * rk[2] * jc[2]>>
    ELSE rk

\* the combiner of main: localScore from rkScore, jcScore and the two texts
combine(a, b, rk, jc) ==
    IF a.text = b.text THEN <<100, 1>>
    ELSE IF rk[1] = 0 /\ jc[1] = 0 THEN <<0, 1>>
    ELSE <<2 * rk[1] * jc[2] + 3 * jc[1] * rk[2], 5 * rk[2] * jc[2]>>

(***************************************************************************)
(* The run of main on two input files                                      *)
(***************************************************************************)
MaxBlocks == 3

\* the pieces the input files are made of: the line "aaaaBBaa\n", the phrase
\* "aaaabbaa \tb" (a space and a tab before the last letter) and "b"
BlockLine == <<97, 97, 97, 97, 66, 66, 97, 97, NL>>
BlockPhrase == <<97, 97, 97, 97, 98, 98, 97, 97, SP, 9, 98>>
BlockLetter == <<98>>
Vocabulary == {BlockLine, BlockPhrase, BlockLetter}

\* every text made of at most n pieces
RECURSIVE Texts(_)
Texts(n) ==
    IF n = 0 THEN {<<>>}
    ELSE LET T == Texts(n - 1) IN T \cup {t \o v : t \in T, v \in Vocabulary}

Inputs == Texts(MaxBlocks)

NoDocument == [raw |-> <<>>, text |-> <<>>, indexMap |-> <<>>, lineStarts |-> <<>>]
\* a double that main has not defined yet
NoScore == <<-1, 1>>
\* findOccurrences not called yet
NoTrace == [h |-> <<>>, p |-> <<>>, t |-> <<>>, rolled |-> <<>>, terms |-> <<>>,
            factors |-> {}]
\* no method called yet
NoCall == [op |-> "none", args |-> <<>>, result |-> <<>>,
           reads |-> [indexMap |-> {}, raw |-> {}]]

Init ==
    /\ pc = "start"
    /\ rawA \in Inputs
    /\ rawB \in Inputs
    /\ docA = NoDocument
    /\ docB = NoDocument
    /\ spans = <<>>
    /\ rkScore = NoScore
    /\ jcScore = NoScore
    /\ localScore = NoScore
    /\ jcShinglesA = {}
    /\ jcShinglesB = {}
    /\ call = NoCall
    /\ hashTrace = NoTrace
    /\ handed = <<>>
    /\ NoFrontEnd

\* Document a = Document::fromFile(file1); Document b = Document::fromFile(file2);
Construct ==
    /\ pc = "start"
    /\ docA' = Document(rawA)
    /\ docB' = Document(rawB)
    /\ pc' = "constructed"
    /\ UNCHANGED uiVars
    /\ UNCHANGED <<rawA, rawB, spans, rkScore, jcScore, localScore, jcShinglesA, jcShinglesB, call,
                   hashTrace, handed>>

\* double rkScore = rk.score(a, b);
RkScore ==
    /\ pc = "constructed"
    /\ LET result == RabinKarpChecker_score(docA, docB)
       IN /\ spans' = result.spans
          /\ rkScore' = result.score
    /\ handed' = handedSpans(docA, docB)
    /\ pc' = "rk"
    /\ UNCHANGED uiVars
    /\ UNCHANGED <<rawA, rawB, docA, docB, jcScore, localScore, jcShinglesA, jcShinglesB, call,
                   hashTrace>>

\* double jcScore = jc.score(a, b);
JcScore ==
    /\ pc = "rk"
    /\ jcScore' = JaccardChecker_score(docA, docB)
    /\ LET members == JaccardChecker_members(jcShinglesA, jcShinglesB, docA, docB)
       IN /\ jcShinglesA' = members.shinglesA
          /\ jcShinglesB' = members.shinglesB
    /\ pc' = "jc"
    /\ UNCHANGED uiVars
    /\ UNCHANGED <<rawA, rawB, docA, docB, spans, rkScore, localScore, call,
                   hashTrace, handed>>

\* the if / else if / else that sets localScore
Combine ==
    /\ pc = "jc"
    /\ localScore' = combine(docA, docB, rkScore, jcScore)
    /\ pc' = "done"
    /\ UNCHANGED uiVars
    /\ UNCHANGED <<rawA, rawB, docA, docB, spans, rkScore, jcScore, jcShinglesA, jcShinglesB, call,
                   hashTrace, handed>>

Next == Construct \/ RkScore \/ JcScore \/ Combine

Spec == Init /\ [][Next]_vars

(***************************************************************************)
(* The construction of one Document from a raw text                        *)
(***************************************************************************)
MaxRawLen == 5

\* 'a', 'A', space, tab, carriage return and newline
RawAlphabet == {97, 65, SP, 9, 13, NL}

RECURSIVE Strings(_)
Strings(n) ==
    IF n = 0 THEN {<<>>}
    ELSE LET T == Strings(n - 1) IN T \cup {Append(t, c) : t \in T, c \in RawAlphabet}

RawTexts == Strings(MaxRawLen)

InitDoc ==
    /\ pc = "raw"
    /\ rawA \in RawTexts
    /\ rawB = <<>>
    /\ docA = NoDocument
    /\ docB = NoDocument
    /\ spans = <<>>
    /\ rkScore = NoScore
    /\ jcScore = NoScore
    /\ localScore = NoScore
    /\ jcShinglesA = {}
    /\ jcShinglesB = {}
    /\ call = NoCall
    /\ hashTrace = NoTrace
    /\ handed = <<>>
    /\ NoFrontEnd

\* Document d(rawA);
NewDocument ==
    /\ pc = "raw"
    /\ docA' = Document(rawA)
    /\ pc' = "built"
    /\ UNCHANGED uiVars
    /\ UNCHANGED <<rawA, rawB, docB, spans, rkScore, jcScore, localScore, jcShinglesA, jcShinglesB, call,
                   hashTrace, handed>>

NextDoc == NewDocument

SpecDoc == InitDoc /\ [][NextDoc]_vars

(***************************************************************************)
(* Calls of getLineNumber and rawSlice on a constructed Document           *)
(***************************************************************************)
MaxQueryLen == 4

QueryTexts == Strings(MaxQueryLen)

\* the int arguments tried: negative, inside the canonical text, at its end
\* and beyond it
Offsets == (0 - 2)..(MaxQueryLen + 2)

InitQuery ==
    /\ pc = "raw"
    /\ rawA \in QueryTexts
    /\ rawB = <<>>
    /\ docA = NoDocument
    /\ docB = NoDocument
    /\ spans = <<>>
    /\ rkScore = NoScore
    /\ jcScore = NoScore
    /\ localScore = NoScore
    /\ jcShinglesA = {}
    /\ jcShinglesB = {}
    /\ call = NoCall
    /\ hashTrace = NoTrace
    /\ handed = <<>>
    /\ NoFrontEnd

\* d.getLineNumber(position)
GetLineNumber ==
    /\ pc = "built"
    /\ \E position \in Offsets :
         call' = [op |-> "getLineNumber", args |-> <<position>>,
                  result |-> getLineNumber(docA, position),
                  reads |-> [indexMap |-> {}, raw |-> {}]]
    /\ pc' = "called"
    /\ UNCHANGED uiVars
    /\ UNCHANGED <<rawA, rawB, docA, docB, spans, rkScore, jcScore, localScore,
                   jcShinglesA, jcShinglesB, hashTrace, handed>>

\* d.rawSlice(startProcessed, endProcessed)
RawSlice ==
    /\ pc = "built"
    /\ \E startProcessed \in Offsets, endProcessed \in Offsets :
         call' = [op |-> "rawSlice", args |-> <<startProcessed, endProcessed>>,
                  result |-> rawSlice(docA, startProcessed, endProcessed),
                  reads |-> rawSliceReads(docA, startProcessed, endProcessed)]
    /\ pc' = "called"
    /\ UNCHANGED uiVars
    /\ UNCHANGED <<rawA, rawB, docA, docB, spans, rkScore, jcScore, localScore,
                   jcShinglesA, jcShinglesB, hashTrace, handed>>

NextQuery == NewDocument \/ GetLineNumber \/ RawSlice

SpecQuery == InitQuery /\ [][NextQuery]_vars

(***************************************************************************)
(* One RabinKarpChecker and one JaccardChecker scoring pair after pair      *)
(***************************************************************************)
\* the files the pairs are taken from: "", "b", "bb", "aaaaBBaa\n",
\* "baaaaBBaa\n", "aaaabbaa \tb", "aaaaBBaa\naaaabbaa \tb" and
\* "aaaabbaa \tbaaaabbaa \tb"
ReuseTexts ==
    {<<>>, BlockLetter, BlockLetter \o BlockLetter, BlockLine, BlockLetter \o BlockLine,
     BlockPhrase, BlockLine \o BlockPhrase, BlockPhrase \o BlockPhrase}

InitReuse ==
    /\ pc = "idle"
    /\ rawA = <<>>
    /\ rawB = <<>>
    /\ docA = NoDocument
    /\ docB = NoDocument
    /\ spans = <<>>
    /\ rkScore = NoScore
    /\ jcScore = NoScore
    /\ localScore = NoScore
    /\ jcShinglesA = {}
    /\ jcShinglesB = {}
    /\ call = NoCall
    /\ hashTrace = NoTrace
    /\ handed = <<>>
    /\ NoFrontEnd

\* rkScore = rk.score(a, b); jcScore = jc.score(a, b); on the instances rk
\* and jc that served the earlier pairs
ScorePair ==
    /\ \E a \in ReuseTexts, b \in ReuseTexts :
         /\ rawA' = a
         /\ rawB' = b
         /\ docA' = Document(a)
         /\ docB' = Document(b)
    /\ LET rk == RabinKarpChecker_call(spans, docA', docB')
           jc == JaccardChecker_call(jcShinglesA, jcShinglesB, docA', docB')
       IN /\ spans' = rk.spans
          /\ rkScore' = rk.score
          /\ jcScore' = jc.score
          /\ jcShinglesA' = jc.shinglesA
          /\ jcShinglesB' = jc.shinglesB
    /\ handed' = handedSpans(docA', docB')
    /\ pc' = "scored"
    /\ UNCHANGED uiVars
    /\ UNCHANGED <<localScore, call, hashTrace>>

NextReuse == ScorePair

SpecReuse == InitReuse /\ [][NextReuse]_vars

(***************************************************************************)
(* Calls of findOccurrences                                                *)
(***************************************************************************)
MaxFindBlocks == 3

\* the pieces of the texts and patterns: four zero bytes, the four bytes
\* 58 234 70 157 (whose polynomial value is exactly the modulus, so that it
\* hashes to 0 like the four zero bytes), the byte 255 and the letter 'a'
FindZeros == <<0, 0, 0, 0>>
FindModulus == <<58, 234, 70, 157>>
FindHigh == <<255>>
FindLetter == <<97>>
FindVocabulary == {FindZeros, FindModulus, FindHigh, FindLetter}

RECURSIVE FindTexts(_)
FindTexts(n) ==
    IF n = 0 THEN {<<>>}
    ELSE LET T == FindTexts(n - 1) IN T \cup {t \o v : t \in T, v \in FindVocabulary}

InitFind ==
    /\ pc = "idle"
    /\ rawA = <<>>
    /\ rawB = <<>>
    /\ docA = NoDocument
    /\ docB = NoDocument
    /\ spans = <<>>
    /\ rkScore = NoScore
    /\ jcScore = NoScore
    /\ localScore = NoScore
    /\ jcShinglesA = {}
    /\ jcShinglesB = {}
    /\ call = NoCall
    /\ hashTrace = NoTrace
    /\ handed = <<>>
    /\ NoFrontEnd

\* auto occ = findOccurrences(text, pattern);
FindOccurrences ==
    /\ pc = "idle"
    /\ \E text \in FindTexts(MaxFindBlocks), pattern \in FindTexts(MaxFindBlocks) :
         /\ call' = [op |-> "findOccurrences", args |-> <<text, pattern>>,
                     result |-> findOccurrences(text, pattern),
                     reads |-> [indexMap |-> {}, raw |-> {}]]
         /\ hashTrace' = hashRun(text, pattern)
    /\ pc' = "called"
    /\ UNCHANGED uiVars
    /\ UNCHANGED <<rawA, rawB, docA, docB, spans, rkScore, jcScore, localScore,
                   jcShinglesA, jcShinglesB, handed>>

NextFind == FindOccurrences

SpecFind == InitFind /\ [][NextFind]_vars

(***************************************************************************)
(* PlagiarismGauge: the effect that animates animatedScore                 *)
(*                                                                         *)
(* The score prop is kept in tenths (25 is 2.5).  A timer that is armed is *)
(* a record with the time in ms until it fires; a timer that is due fires  *)
(* before any more time passes.                                            *)
(***************************************************************************)
MaxChanges == 2

\* setTimeout(..., 300) and setInterval(..., 20)
startDelay == 300
tickDelay == 20

\* the step in which time passes
Quantum == tickDelay \div 2

\* the values of the score prop: -1, 0, 1.4 and 2.5
GaugeScores == {0 - 10, 0, 14, 25}

\* Math.round of a number given in tenths (a half rounds up)
round(tenths) == (tenths + 5) \div 10

\* const target = Math.max(0, Math.round(score));
targetOf(s) == Max(0, round(s))

\* the body of the effect, run number id, for the score s: the timers it arms
effectBody(s, id) ==
    IF targetOf(s) = 0 THEN {}
    ELSE {[kind |-> "timeout", effect |-> id, due |-> startDelay,
           target |-> targetOf(s), current |-> 0]}

\* return () => clearTimeout(timer): the timers left armed by the cleanup of
\* the run id of the effect
effectCleanup(ts, id) == {t \in ts : ~(t.kind = "timeout" /\ t.effect = id)}

\* the callback of setTimeout: the interval it arms
timeoutCallback(t) ==
    [kind |-> "interval", effect |-> t.effect, due |-> tickDelay,
     target |-> t.target, current |-> 0]

\* the callback of setInterval on the interval t: current, and whether the
\* interval stays armed
intervalCallback(t) ==
    [current |-> t.current + 1, armed |-> ~(t.current + 1 >= t.target)]

\* the component is mounted with some score and its effect has run once
InitGauge ==
    /\ pc = "mounted"
    /\ rawA = <<>>
    /\ rawB = <<>>
    /\ docA = NoDocument
    /\ docB = NoDocument
    /\ spans = <<>>
    /\ rkScore = NoScore
    /\ jcScore = NoScore
    /\ localScore = NoScore
    /\ jcShinglesA = {}
    /\ jcShinglesB = {}
    /\ call = NoCall
    /\ hashTrace = NoTrace
    /\ handed = <<>>
    /\ score \in GaugeScores
    /\ animatedScore = 0
    /\ timers = effectBody(score, 1)
    /\ effect = 1
    /\ writer = 1
    /\ changes = 0
    /\ selectedFile = Null
    /\ secondFile = Null
    /\ isChecking = FALSE
    /\ plagiarismScore = Null
    /\ checkResult = Null
    /\ isBackendConnected = Null
    /\ health = FALSE
    /\ check = Null
    /\ toasts = Null
    /\ finished = NoFinish

\* the parent renders the gauge with another score: the cleanup of the last
\* run of the effect, then the effect again
SetScore ==
    /\ pc = "mounted"
    /\ changes < MaxChanges
    /\ \E s \in GaugeScores \ {score} :
          /\ score' = s
          /\ timers' = effectCleanup(timers, effect) \cup effectBody(s, effect + 1)
    /\ animatedScore' = 0
    /\ effect' = effect + 1
    /\ writer' = effect + 1
    /\ changes' = changes + 1
    /\ UNCHANGED <<pc, rawA, rawB, docA, docB, spans, rkScore, jcScore, localScore,
                   jcShinglesA, jcShinglesB, call, hashTrace, handed, pageVars>>

\* the timeout fires: line 17 to 27
FireTimeout ==
    /\ pc = "mounted"
    /\ \E t \in timers :
          /\ t.kind = "timeout"
          /\ t.due = 0
          /\ timers' = (timers \ {t}) \cup {timeoutCallback(t)}
    /\ UNCHANGED <<pc, rawA, rawB, docA, docB, spans, rkScore, jcScore, localScore,
                   jcShinglesA, jcShinglesB, call, hashTrace, handed, pageVars>>
    /\ UNCHANGED <<score, animatedScore, effect, writer, changes>>

\* an interval ticks: line 19 to 25
FireInterval ==
    /\ pc = "mounted"
    /\ \E t \in timers :
          /\ t.kind = "interval"
          /\ t.due = 0
          /\ LET after == intervalCallback(t)
             IN /\ animatedScore' = after.current
                /\ timers' = (timers \ {t}) \cup
                      (IF after.armed
                       THEN {[t EXCEPT !.current = after.current, !.due = tickDelay]}
                       ELSE {})
          /\ writer' = t.effect
    /\ UNCHANGED <<pc, rawA, rawB, docA, docB, spans, rkScore, jcScore, localScore,
                   jcShinglesA, jcShinglesB, call, hashTrace, handed, pageVars>>
    /\ UNCHANGED <<score, effect, changes>>

\* time passes while no armed timer is due
TimePasses ==
    /\ pc = "mounted"
    /\ timers # {}
    /\ \A t \in timers : t.due >= Quantum
    /\ timers' = {[t EXCEPT !.due = @ - Quantum] : t \in timers}
    /\ UNCHANGED <<pc, rawA, rawB, docA, docB, spans, rkScore, jcScore, localScore,
                   jcShinglesA, jcShinglesB, call, hashTrace, handed, pageVars>>
    /\ UNCHANGED <<score, animatedScore, effect, writer, changes>>

NextGauge == SetScore \/ FireTimeout \/ FireInterval \/ TimePasses

SpecGauge == InitGauge /\ [][NextGauge]_vars

(***************************************************************************)
(* The Checker page: handleCheck and the state it sets                     *)
(*                                                                         *)
(* A File is a record of its name and of the length of its text.  A result *)
(* of the backend holds its scores as fractions and, for a full text, the  *)
(* length of the text.  A call of handleCheck that waits at an await is a  *)
(* record of the await ("request", "textA" or "textB"), of the files the   *)
(* call captured and of the locals result, totalA that are already set.    *)
(***************************************************************************)
Files == {[name |-> "a.txt", size |-> 8], [name |-> "empty.txt", size |-> 0]}

\* x ?? y
orElse(x, y) == IF x = Null THEN y ELSE x[1]

Highlight(start, end) ==
    [start |-> Some(start), end |-> Some(end), charStartA |-> Null,
     charEndA |-> Null, charStartB |-> Null, charEndB |-> Null]

HighlightAB(startA, endA, startB, endB) ==
    [start |-> Null, end |-> Null, charStartA |-> Some(startA),
     charEndA |-> Some(endA), charStartB |-> Some(startB), charEndB |-> Some(endB)]

\* the bodies the backend answers with: scores above 0; scores 0 and no
\* highlight; scores 0 with highlights and both full texts; the same without
\* the full texts; the same with local highlights; scores 0 and a highlight
\* that is empty
Results ==
    { [overallScore |-> <<40, 1>>, localScore |-> <<40, 1>>,
       highlights |-> <<Highlight(0, 2)>>, localHighlights |-> Null,
       sourceFullText |-> Null, targetFullText |-> Null],
      [overallScore |-> <<0, 1>>, localScore |-> <<0, 1>>,
       highlights |-> <<>>, localHighlights |-> Null,
       sourceFullText |-> Null, targetFullText |-> Null],
      [overallScore |-> <<0, 1>>, localScore |-> <<0, 1>>,
       highlights |-> <<Highlight(2, 4), Highlight(0, 1), Highlight(3, 6)>>,
       localHighlights |-> Null,
       sourceFullText |-> Some(8), targetFullText |-> Some(8)],
      [overallScore |-> <<0, 1>>, localScore |-> <<0, 1>>,
       highlights |-> <<Highlight(2, 4), Highlight(0, 1), Highlight(3, 6)>>,
       localHighlights |-> Null,
       sourceFullText |-> Null, targetFullText |-> Null],
      [overallScore |-> <<40, 1>>, localScore |-> <<0, 1>>,
       highlights |-> <<>>,
       localHighlights |-> Some(<<HighlightAB(0, 4, 6, 12)>>),
       sourceFullText |-> Some(8), targetFullText |-> Null],
      [overallScore |-> <<0, 1>>, localScore |-> <<0, 1>>,
       highlights |-> <<Highlight(3, 3)>>, localHighlights |-> Null,
       sourceFullText |-> Some(8), targetFullText |-> Some(8)] }

\* a thrown value that is an Error with the message m, and one that is not an
\* Error
Error(m) == [isError |-> TRUE, message |-> m]
NotAnError == [isError |-> FALSE, message |-> ""]

\* error instanceof Error ? error.message : 'An unknown error occurred'
errorMessage(error) ==
    IF error.isError THEN error.message ELSE "An unknown error occurred"

\* what fetch and the body of the response do: fetch rejects with a reason,
\* or resolves with a response that is ok or not and whose body is JSON (json)
\* or makes response.json() reject (syntaxError)
Reply(fetch, reason, ok, json, syntaxError) ==
    [fetch |-> fetch, reason |-> reason, ok |-> ok, json |-> json,
     syntaxError |-> syntaxError]

\* the message V8 gives for a body that starts with "Internal Server Error"
NotJSON == Error("Unexpected token 'I', \"Internal S\"... is not valid JSON")

Replies ==
    { Reply("rejects", Error("Failed to fetch"), FALSE, Null, NotAnError),
      Reply("rejects", NotAnError, FALSE, Null, NotAnError),
      Reply("resolves", NotAnError, FALSE,
            Some([error |-> Some("Only .txt files are supported")]), NotAnError),
      Reply("resolves", NotAnError, FALSE, Some([error |-> Some("")]), NotAnError),
      Reply("resolves", NotAnError, FALSE, Some([error |-> Null]), NotAnError),
      Reply("resolves", NotAnError, FALSE, Null, NotJSON),
      Reply("resolves", NotAnError, TRUE, Null, NotJSON) }
    \cup {Reply("resolves", NotAnError, TRUE, Some(r), NotAnError) : r \in Results}

\* PlagiarismAPI.checkPlagiarism: how its promise settles
checkPlagiarism(reply) ==
    IF reply.fetch = "rejects"
    THEN [settles |-> "rejected", reason |-> reply.reason, value |-> Null]
    ELSE IF ~reply.ok
    THEN IF reply.json = Null
         THEN [settles |-> "rejected", reason |-> reply.syntaxError, value |-> Null]
         ELSE [settles |-> "rejected",
               reason |-> Error(IF reply.json[1].error \in {Null, Some("")}
                                THEN "Failed to check plagiarism"
                                ELSE reply.json[1].error[1]),
               value |-> Null]
    ELSE IF reply.json = Null
    THEN [settles |-> "rejected", reason |-> reply.syntaxError, value |-> Null]
    ELSE [settles |-> "resolved", reason |-> NotAnError, value |-> reply.json]

\* the TypeError of sorted[0].s when sorted is empty, with the message of V8
UndefinedRead == Error("Cannot read properties of undefined (reading 's')")

\* the DOMException of a file that cannot be read, with the message of Node
\* and the message of Chrome
ReadErrors ==
    { Error("The blob could not be read"),
      Error("The requested file could not be read, typically due to permission problems that have occurred after a reference to a file was acquired.") }

\* the three guards of handleCheck: the toast of the guard that returns, <<>>
\* when the call goes on
handleCheckGuard(fileA, fileB, connected) ==
    IF fileA = Null THEN <<"No file selected", "Please upload a file first">>
    ELSE IF fileB = Null
    THEN <<"Second file required", "Please upload a second file to compare">>
    ELSE IF connected = Some(FALSE)
    THEN <<"Backend not available",
           "Please ensure the backend server is running on port 8000">>
    ELSE <<>>

\* result.localHighlights?.length ? result.localHighlights : result.highlights
highlightsOf(result) ==
    IF result.localHighlights # Null /\ Len(result.localHighlights[1]) > 0
    THEN result.localHighlights[1]
    ELSE result.highlights

aIntervalsOf(hs) ==
    [i \in 1..Len(hs) |->
        [s |-> orElse(hs[i].charStartA, orElse(hs[i].start, 0)),
         e |-> orElse(hs[i].charEndA, orElse(hs[i].end, 0))]]

bIntervalsOf(hs) ==
    [i \in 1..Len(hs) |->
        [s |-> orElse(hs[i].charStartB, orElse(hs[i].start, 0)),
         e |-> orElse(hs[i].charEndB, orElse(hs[i].end, 0))]]

\* .map(clamp to 0..total).filter(x.e > x.s)
clampAndFilter(intervals, total) ==
    LET clamped == [i \in 1..Len(intervals) |->
                       [s |-> Max(0, Min(intervals[i].s, total)),
                        e |-> Max(0, Min(intervals[i].e, total))]]
    IN SelectSeq(clamped, LAMBDA x : x.e > x.s)

\* .sort((a, b) => a.s - b.s), which is stable
RECURSIVE sortByStart(_)
sortByStart(xs) ==
    IF Len(xs) <= 1 THEN xs
    ELSE LET head == sortByStart(SubSeq(xs, 1, Len(xs) - 1))
             x == xs[Len(xs)]
         IN SelectSeq(head, LAMBDA y : y.s <= x.s) \o <<x>> \o
            SelectSeq(head, LAMBDA y : y.s > x.s)

\* the loop of coverage over sorted[k], k >= 1 (sorted[k] is sorted[k + 1]
\* here)
RECURSIVE coverageLoop(_, _)
coverageLoop(sorted, st) ==
    IF st.k >= Len(sorted) THEN st
    ELSE LET x == sorted[st.k + 1]
         IN IF x.s <= st.ce
            THEN coverageLoop(sorted, [st EXCEPT !.k = @ + 1, !.ce = Max(st.ce, x.e)])
            ELSE coverageLoop(sorted, [k |-> st.k + 1, covered |-> st.covered + (st.ce - st.cs),
                                       cs |-> x.s, ce |-> x.e])

\* coverage(intervals, total): the fraction it returns, or that it throws
\* (sorted[0].s when no interval is left after the filter)
coverage(intervals, total) ==
    IF Len(intervals) = 0 \/ total = 0 THEN [throws |-> FALSE, value |-> <<0, 1>>]
    ELSE LET sorted == sortByStart(clampAndFilter(intervals, total))
         IN IF Len(sorted) = 0 THEN [throws |-> TRUE, value |-> <<0, 1>>]
            ELSE LET st == coverageLoop(sorted, [k |-> 1, covered |-> 0,
                                                 cs |-> sorted[1].s, ce |-> sorted[1].e])
                 IN [throws |-> FALSE,
                     value |-> <<(st.covered + (st.ce - st.cs)) * 100, total>>]

\* the end of the try block and finally: setCheckResult, setPlagiarismScore,
\* the toast, setIsChecking(false)
completed(result, displayOverall, displayLocal) ==
    [check |-> Null,
     checkResult |-> Some([result EXCEPT !.overallScore = displayOverall,
                                        !.localScore = displayLocal]),
     plagiarismScore |-> Some(displayOverall),
     toasts |-> Some(<<"Check completed!",
                       "Plagiarism check finished with local file comparison">>),
     isChecking |-> FALSE,
     finished |-> [request |-> "resolved", outcome |-> "completed"]]

\* catch and finally when the finally block is left out
caught_noFinally(request, error, cr, ps, isCk) ==
    [check |-> Null, checkResult |-> cr, plagiarismScore |-> ps,
     toasts |-> Some(<<"Check failed", errorMessage(error)>>), isChecking |-> isCk,
     finished |-> [request |-> request, outcome |-> "caught"]]

\* catch and finally: the toast with the message of the error,
\* setIsChecking(false)
caught(request, error, cr, ps, isCk) ==
    [check |-> Null, checkResult |-> cr, plagiarismScore |-> ps,
     toasts |-> Some(<<"Check failed", errorMessage(error)>>), isChecking |-> FALSE,
     finished |-> [request |-> request, outcome |-> "caught"]]

\* the call waits at the next await
awaiting(ch, cr, ps, isCk, ts, fin) ==
    [check |-> Some(ch), checkResult |-> cr, plagiarismScore |-> ps,
     toasts |-> ts, isChecking |-> isCk, finished |-> fin]

\* the lines after both totals are known, to the end of the call
afterTotals(ch, cr, ps, isCk) ==
    LET result == ch.result[1]
        hs == highlightsOf(result)
        totalA == ch.totalA[1]
        totalB == ch.totalB[1]
        aCov == coverage(aIntervalsOf(hs), totalA)
        bCov == coverage(bIntervalsOf(hs), totalB)
        mean == <<aCov.value[1] * bCov.value[2] + bCov.value[1] * aCov.value[2],
                  2 * aCov.value[2] * bCov.value[2]>>
    IN IF totalA > 0 /\ totalB > 0
       THEN IF aCov.throws \/ bCov.throws
            THEN caught("resolved", UndefinedRead, cr, ps, isCk)
            ELSE completed(result, mean, mean)
       ELSE completed(result, result.overallScore, result.localScore)

\* the call goes on after the request resolved or a text was read, until the
\* next await or its end
RECURSIVE resume(_, _, _, _, _, _)
resume(ch, cr, ps, isCk, ts, fin) ==
    LET result == ch.result[1]
        hs == highlightsOf(result)
    IN IF ~((result.overallScore[1] = 0 \/ result.localScore[1] = 0) /\ Len(hs) > 0)
       THEN completed(result, result.overallScore, result.localScore)
       ELSE IF ch.totalA = Null
       THEN IF result.sourceFullText # Null
            THEN resume([ch EXCEPT !.totalA = result.sourceFullText], cr, ps, isCk, ts, fin)
            ELSE awaiting([ch EXCEPT !.at = "textA"], cr, ps, isCk, ts, fin)
       ELSE IF ch.totalB = Null
       THEN IF result.targetFullText # Null
            THEN resume([ch EXCEPT !.totalB = result.targetFullText], cr, ps, isCk, ts, fin)
            ELSE awaiting([ch EXCEPT !.at = "textB"], cr, ps, isCk, ts, fin)
       ELSE afterTotals(ch, cr, ps, isCk)

\* the call with the length of the text it waited for: totalA = (await
\* selectedFile.text()).length, totalB = (await secondFile.text()).length
withText(ch) ==
    IF ch.at = "textA"
    THEN [ch EXCEPT !.totalA = Some(ch.fileA.size)]
    ELSE [ch EXCEPT !.totalB = Some(ch.fileB.size)]

\* the state an outcome leaves
Becomes(o) ==
    /\ check' = o.check
    /\ checkResult' = o.checkResult
    /\ plagiarismScore' = o.plagiarismScore
    /\ toasts' = o.toasts
    /\ isChecking' = o.isChecking
    /\ finished' = o.finished

\* the page is mounted: no file, and healthCheck is under way
InitChecker ==
    /\ pc = "page"
    /\ rawA = <<>>
    /\ rawB = <<>>
    /\ docA = NoDocument
    /\ docB = NoDocument
    /\ spans = <<>>
    /\ rkScore = NoScore
    /\ jcScore = NoScore
    /\ localScore = NoScore
    /\ jcShinglesA = {}
    /\ jcShinglesB = {}
    /\ call = NoCall
    /\ hashTrace = NoTrace
    /\ handed = <<>>
    /\ score = 0
    /\ animatedScore = 0
    /\ timers = {}
    /\ effect = 0
    /\ writer = 0
    /\ changes = 0
    /\ selectedFile = Null
    /\ secondFile = Null
    /\ isChecking = FALSE
    /\ plagiarismScore = Null
    /\ checkResult = Null
    /\ isBackendConnected = Null
    /\ health = TRUE
    /\ check = Null
    /\ toasts = Null
    /\ finished = NoFinish

\* PlagiarismAPI.healthCheck().then(setIsBackendConnected)
HealthCheckSettles ==
    /\ pc = "page"
    /\ health
    /\ \E ok \in BOOLEAN : isBackendConnected' = Some(ok)
    /\ health' = FALSE
    /\ UNCHANGED <<pc, rawA, rawB, docA, docB, spans, rkScore, jcScore, localScore,
                   jcShinglesA, jcShinglesB, call, hashTrace, handed, gaugeVars>>
    /\ UNCHANGED <<selectedFile, secondFile, isChecking, plagiarismScore, checkResult,
                   check, toasts, finished>>

\* onFileSelect of the first FileUpload: a file, or null when it is removed
SelectFile ==
    /\ pc = "page"
    /\ \E f \in {Null} \cup {Some(x) : x \in Files} :
          /\ f # selectedFile
          /\ selectedFile' = f
    /\ UNCHANGED <<pc, rawA, rawB, docA, docB, spans, rkScore, jcScore, localScore,
                   jcShinglesA, jcShinglesB, call, hashTrace, handed, gaugeVars>>
    /\ UNCHANGED <<secondFile, isChecking, plagiarismScore, checkResult,
                   isBackendConnected, health, check, toasts, finished>>

\* onFileSelect of the second FileUpload
SelectSecondFile ==
    /\ pc = "page"
    /\ \E f \in {Null} \cup {Some(x) : x \in Files} :
          /\ f # secondFile
          /\ secondFile' = f
    /\ UNCHANGED <<pc, rawA, rawB, docA, docB, spans, rkScore, jcScore, localScore,
                   jcShinglesA, jcShinglesB, call, hashTrace, handed, gaugeVars>>
    /\ UNCHANGED <<selectedFile, isChecking, plagiarismScore, checkResult,
                   isBackendConnected, health, check, toasts, finished>>

\* a click on the button, which is disabled while isChecking or a file is
\* missing: handleCheck up to its first await
HandleCheck ==
    /\ pc = "page"
    /\ ~(isChecking \/ selectedFile = Null \/ secondFile = Null)
    /\ LET title == handleCheckGuard(selectedFile, secondFile, isBackendConnected)
       IN IF title # <<>>
          THEN /\ toasts' = Some(title)
               /\ UNCHANGED <<isChecking, check>>
          ELSE /\ isChecking' = TRUE
               /\ check' = Some([at |-> "request", fileA |-> selectedFile[1],
                                 fileB |-> secondFile[1], result |-> Null,
                                 totalA |-> Null, totalB |-> Null])
               /\ UNCHANGED toasts
    /\ UNCHANGED <<pc, rawA, rawB, docA, docB, spans, rkScore, jcScore, localScore,
                   jcShinglesA, jcShinglesB, call, hashTrace, handed, gaugeVars>>
    /\ UNCHANGED <<selectedFile, secondFile, plagiarismScore, checkResult,
                   isBackendConnected, health, finished>>

\* checkPlagiarism resolves with the body of the response
CheckResolves ==
    /\ pc = "page"
    /\ check # Null
    /\ check[1].at = "request"
    /\ \E reply \in Replies :
          /\ checkPlagiarism(reply).settles = "resolved"
          /\ Becomes(resume([check[1] EXCEPT !.result = checkPlagiarism(reply).value],
                            checkResult, plagiarismScore, isChecking, toasts, finished))
    /\ UNCHANGED <<pc, rawA, rawB, docA, docB, spans, rkScore, jcScore, localScore,
                   jcShinglesA, jcShinglesB, call, hashTrace, handed, gaugeVars>>
    /\ UNCHANGED <<selectedFile, secondFile, isBackendConnected, health>>

\* checkPlagiarism rejects: fetch rejected, the response was not ok, or its
\* body was not JSON
CheckRejects ==
    /\ pc = "page"
    /\ check # Null
    /\ check[1].at = "request"
    /\ \E reply \in Replies :
          /\ checkPlagiarism(reply).settles = "rejected"
          /\ Becomes(caught("rejected", checkPlagiarism(reply).reason, checkResult,
                            plagiarismScore, isChecking))
    /\ UNCHANGED <<pc, rawA, rawB, docA, docB, spans, rkScore, jcScore, localScore,
                   jcShinglesA, jcShinglesB, call, hashTrace, handed, gaugeVars>>
    /\ UNCHANGED <<selectedFile, secondFile, isBackendConnected, health>>

\* selectedFile.text() or secondFile.text() resolves
TextResolves ==
    /\ pc = "page"
    /\ check # Null
    /\ check[1].at \in {"textA", "textB"}
    /\ Becomes(resume(withText(check[1]), checkResult, plagiarismScore, isChecking,
                      toasts, finished))
    /\ UNCHANGED <<pc, rawA, rawB, docA, docB, spans, rkScore, jcScore, localScore,
                   jcShinglesA, jcShinglesB, call, hashTrace, handed, gaugeVars>>
    /\ UNCHANGED <<selectedFile, secondFile, isBackendConnected, health>>

\* selectedFile.text() or secondFile.text() rejects (the file cannot be read)
TextRejects ==
    /\ pc = "page"
    /\ check # Null
    /\ check[1].at \in {"textA", "textB"}
    /\ \E error \in ReadErrors :
          Becomes(caught("resolved", error, checkResult, plagiarismScore, isChecking))
    /\ UNCHANGED <<pc, rawA, rawB, docA, docB, spans, rkScore, jcScore, localScore,
                   jcShinglesA, jcShinglesB, call, hashTrace, handed, gaugeVars>>
    /\ UNCHANGED <<selectedFile, secondFile, isBackendConnected, health>>

NextChecker ==
    \/ HealthCheckSettles
    \/ SelectFile
    \/ SelectSecondFile
    \/ HandleCheck
    \/ CheckResolves
    \/ CheckRejects
    \/ TextResolves
    \/ TextRejects

SpecChecker == InitChecker /\ [][NextChecker]_vars

\* the promise of checkPlagiarism settles, and so does the promise of text()
SpecCheckerFair ==
    /\ SpecChecker
    /\ WF_vars(CheckRejects \/ CheckResolves)
    /\ WF_vars(TextRejects \/ TextResolves)

(***************************************************************************)
(* Properties                                                              *)
(***************************************************************************)
\* comparisons of a fraction <<n, d>>, d > 0, with an integer
FracEq(f, n) == f[2] > 0 /\ f[1] = n * f[2]
FracIn(f, lo, hi) == f[2] > 0 /\ lo * f[2] <= f[1] /\ f[1] <= hi * f[2]

RkDone == pc \in {"rk", "jc", "done"}
JcDone == pc \in {"jc", "done"}

\* the canonical text of the A-side and of the B-side of a span
SideA(sp) == SubSeq(docA.text, sp.startA + 1, sp.endA)
SideB(sp) == SubSeq(docB.text, sp.startB + 1, sp.endB)

\* C1 (Identity): when both files hold the same raw text, the combined score
\* and the exact score are 100 and there is exactly one span, from 0 to the
\* length of the canonical text on both sides.
C1_Identity ==
    (pc = "done" /\ rawA = rawB) =>
        /\ FracEq(localScore, 100)
        /\ FracEq(rkScore, 100)
        /\ Len(spans) = 1
        /\ spans[1].startA = 0 /\ spans[1].startB = 0
        /\ spans[1].endA = Len(docA.text) /\ spans[1].endB = Len(docA.text)

C1_Witness ==
    /\ pc = "done" /\ rawA = rawB
    /\ Len(docA.text) >= 2 * window
    /\ Len(spans) = 1 /\ spans[1].endA = Len(docA.text)

\* C2 (No false positives): every span left by score has the same canonical
\* text on its A-side and on its B-side, character for character.
C2_NoFalsePositives ==
    RkDone => \A i \in 1..Len(spans) :
        /\ spans[i].endA - spans[i].startA = spans[i].endB - spans[i].startB
        /\ SideA(spans[i]) = SideB(spans[i])

\* C3 (Span non-degeneracy): every span left by score has endA > startA and
\* endB > startB.
C3_NonDegenerate ==
    RkDone => \A i \in 1..Len(spans) :
        spans[i].endA > spans[i].startA /\ spans[i].endB > spans[i].startB

\* C4 (Span ordering): the spans left by score are in ascending startA order.
C4_Ordered ==
    RkDone => \A i \in 1..(Len(spans) - 1) : spans[i].startA <= spans[i + 1].startA

\* C5 (Span uniqueness): no two distinct spans left by score have the same
\* (startA, startB).
C5_Unique ==
    RkDone => \A i, j \in 1..Len(spans) :
        i # j => ~(spans[i].startA = spans[j].startA /\ spans[i].startB = spans[j].startB)

\* C6 (Score bounds): the exact score, the shingle score after the boost and
\* the combined score each lie in [0, 100].
C6_ScoreBounds ==
    /\ RkDone => FracIn(rkScore, 0, 100)
    /\ JcDone => FracIn(jcScore, 0, 100)
    /\ pc = "done" => FracIn(localScore, 0, 100)

C6_Witness ==
    /\ pc = "done"
    /\ docA.text # docB.text
    /\ rkScore[1] > 0 /\ ~FracEq(rkScore, 100)
    /\ jcScore[1] > 0 /\ ~FracEq(jcScore, 100)
    /\ localScore[1] > 0 /\ ~FracEq(localScore, 100)

\* C7 (Combination formula): the combined score is 100 when the canonical
\* texts are identical; otherwise 0 when both sub-scores are 0; otherwise
\* exactly 0.4 * exactScore + 0.6 * shingleScore.
C7_Combination ==
    pc = "done" =>
        IF docA.text = docB.text THEN FracEq(localScore, 100)
        ELSE IF FracEq(rkScore, 0) /\ FracEq(jcScore, 0) THEN FracEq(localScore, 0)
        ELSE /\ localScore[2] > 0
             /\ 5 * localScore[1] * rkScore[2] * jcScore[2]
                  = localScore[2] * (2 * rkScore[1] * jcScore[2]
                                      + 3 * jcScore[1] * rkScore[2])

C7_Witness ==
    /\ pc = "done"
    /\ docA.text # docB.text
    /\ rkScore[1] > 0 /\ jcScore[1] > 0
    /\ rkScore[1] * jcScore[2] # jcScore[1] * rkScore[2]

\* the set of all length-3 contiguous substrings of a canonical text
ShingleSet(text) == {SubSeq(text, i, i + 2) : i \in 1..(Len(text) - 2)}

\* C8 (Shingle score): 100 for identical canonical texts; otherwise, with SA
\* and SB the sets of length-3 substrings, 100 if both are empty, 0 if exactly
\* one is empty, and otherwise J = 100 * |SA /\ SB| / |SA \/ SB| reported as 0
\* when J = 0, as 20 + 0.8 * J when 0 < J < 20 and as J when J >= 20.
C8_ShingleScore ==
    JcDone =>
        LET SA == ShingleSet(docA.text)
            SB == ShingleSet(docB.text)
            I == Cardinality(SA \cap SB)
            U == Cardinality(SA \cup SB)
        IN IF docA.text = docB.text THEN FracEq(jcScore, 100)
           ELSE IF SA = {} /\ SB = {} THEN FracEq(jcScore, 100)
           ELSE IF SA = {} \/ SB = {} THEN FracEq(jcScore, 0)
           ELSE IF I = 0 THEN FracEq(jcScore, 0)
           ELSE IF 100 * I < 20 * U
                  THEN jcScore[2] > 0 /\ jcScore[1] * U = (20 * U + 80 * I) * jcScore[2]
                  ELSE jcScore[2] > 0 /\ jcScore[1] * U = 100 * I * jcScore[2]

C8_Witness ==
    /\ JcDone
    /\ LET SA == ShingleSet(docA.text)
           SB == ShingleSet(docB.text)
       IN /\ SA \cap SB # {}
          /\ 100 * Cardinality(SA \cap SB) < 20 * Cardinality(SA \cup SB)
    /\ jcScore[1] > 20 * jcScore[2]

\* a character of the raw text that is whitespace but not a newline
IsBlank(c) == isspace(c) /\ c # NL

\* what a raw character becomes in the canonical text
Canonical(c) == IF c = NL THEN NL ELSE IF isspace(c) THEN SP ELSE tolower(c)

\* C9 (Offset-map invariant): indexMap is as long as the canonical text, its
\* entries are non-decreasing valid indices into raw, the raw character at
\* indexMap[i], lower-cased or whitespace-collapsed, is text[i], and the entry
\* of a space standing for a whitespace run is the first character of the run.
C9_OffsetMap ==
    pc = "built" =>
        /\ Len(docA.indexMap) = Len(docA.text)
        /\ \A i \in 1..Len(docA.indexMap) :
             /\ docA.indexMap[i] >= 0 /\ docA.indexMap[i] < Len(docA.raw)
             /\ i > 1 => docA.indexMap[i - 1] <= docA.indexMap[i]
             /\ Canonical(docA.raw[docA.indexMap[i] + 1]) = docA.text[i]
             /\ IsBlank(docA.raw[docA.indexMap[i] + 1]) =>
                  (docA.indexMap[i] = 0 \/ ~IsBlank(docA.raw[docA.indexMap[i]]))

C9_Witness ==
    /\ pc = "built"
    /\ Len(docA.text) < Len(docA.raw)
    /\ \E i \in 1..Len(docA.text) :
         /\ docA.text[i] = SP
         /\ docA.indexMap[i] > 0
         /\ docA.indexMap[i] + 2 < Len(docA.raw)
         /\ IsBlank(docA.raw[docA.indexMap[i] + 2])

\* the canonical form written from the raw text alone: a raw character is
\* dropped exactly when it is a blank that directly follows a blank
RECURSIVE CanonicalFrom(_, _)
CanonicalFrom(raw, i) ==
    IF i > Len(raw) THEN <<>>
    ELSE (IF IsBlank(raw[i]) /\ i > 1 /\ IsBlank(raw[i - 1]) THEN <<>>
          ELSE <<Canonical(raw[i])>>) \o CanonicalFrom(raw, i + 1)

\* C10 (Canonical form): every newline is emitted as its own character, every
\* maximal run of non-newline whitespace becomes exactly one space, every
\* other character is copied lower-cased; the canonical text never holds two
\* consecutive spaces.
C10_CanonicalForm ==
    pc = "built" =>
        /\ docA.text = CanonicalFrom(rawA, 1)
        /\ \A i \in 1..(Len(docA.text) - 1) :
             ~(docA.text[i] = SP /\ docA.text[i + 1] = SP)

C10_Witness ==
    /\ pc = "built"
    /\ \E i \in 1..(Len(rawA) - 3) :
         /\ IsBlank(rawA[i]) /\ IsBlank(rawA[i + 1])
         /\ rawA[i + 2] = NL /\ IsBlank(rawA[i + 3])
    /\ \E i \in 1..Len(rawA) : rawA[i] # tolower(rawA[i])
    /\ Len(docA.text) = Len(rawA) - 1

\* C11 (Line starts): lineStarts[0] = 0, lineStarts is strictly increasing and
\* holds exactly 0 and i + 1 for every canonical index i with a newline, so
\* its length is 1 + the number of newlines; an empty raw text gives an empty
\* canonical text and lineStarts = [0].
C11_LineStarts ==
    pc = "built" =>
        LET ls == docA.lineStarts
            newlines == {i \in 0..(Len(docA.text) - 1) : docA.text[i + 1] = NL}
        IN /\ Len(ls) >= 1 /\ ls[1] = 0
           /\ \A j \in 1..(Len(ls) - 1) : ls[j] < ls[j + 1]
           /\ {ls[j] : j \in 1..Len(ls)} = {0} \cup {i + 1 : i \in newlines}
           /\ Len(ls) = 1 + Cardinality(newlines)
           /\ rawA = <<>> => (docA.text = <<>> /\ ls = <<0>>)

C11_Witness ==
    /\ pc = "built"
    /\ Len(docA.lineStarts) = 3
    /\ docA.text[1] = NL
    /\ docA.lineStarts[3] = Len(docA.text)
    /\ Len(docA.text) < Len(rawA)

\* C12 (Line-number lookup): for every canonical offset p >= 0,
\* getLineNumber(p) returns i + 1 for the greatest index i with
\* lineStarts[i] <= p; for p at or beyond the start of the last line (also
\* past the end of the text) it returns the length of lineStarts.
C12_LineNumber ==
    (call.op = "getLineNumber" /\ call.args[1] >= 0) =>
        LET ls == docA.lineStarts
            p == call.args[1]
            n == call.result
        IN /\ n \in 1..Len(ls)
           /\ ls[n] <= p
           /\ \A j \in (n + 1)..Len(ls) : ls[j] > p
           /\ p >= ls[Len(ls)] => n = Len(ls)

C12_Witness ==
    /\ call.op = "getLineNumber"
    /\ Len(docA.lineStarts) = 3
    /\ call.args[1] = docA.lineStarts[2]
    /\ call.args[1] + 1 < docA.lineStarts[3]
    /\ call.result = 2

\* C13 (Raw-slice resolution): for a canonical range [start, end),
\* rawSlice(start, end) is raw from indexMap[start] up to, not including,
\* min(indexMap[end - 1] + 1, len(raw)); for an empty range (start = end) or
\* an inverted one (end < start) it is the empty string.
C13_RawSlice ==
    call.op = "rawSlice" =>
        LET start == call.args[1]
            end == call.args[2]
        IN /\ (0 <= start /\ start < end /\ end <= Len(docA.text)) =>
                call.result = SubSeq(docA.raw, docA.indexMap[start + 1] + 1,
                                     Min(docA.indexMap[end] + 1, Len(docA.raw)))
           /\ (0 <= end /\ end <= start /\ start <= Len(docA.text)) =>
                call.result = <<>>

\* C14 (Raw-slice safety): for every Document and every pair of integers
\* (negative, equal, inverted, beyond the canonical length) rawSlice reads
\* indexMap and raw only inside their bounds and returns a contiguous
\* substring of raw, possibly empty.
C14_RawSliceSafe ==
    call.op = "rawSlice" =>
        /\ call.reads.indexMap \subseteq 0..(Len(docA.indexMap) - 1)
        /\ call.reads.raw \subseteq 0..(Len(docA.raw) - 1)
        /\ \E i \in 1..(Len(docA.raw) + 1), j \in 0..Len(docA.raw) :
             call.result = SubSeq(docA.raw, i, j)

C14_Witness ==
    /\ call.op = "rawSlice"
    /\ call.args[1] < 0
    /\ call.args[2] > Len(docA.text)
    /\ Len(docA.text) < Len(docA.raw)
    /\ call.result = docA.raw
    /\ Len(docA.raw) = MaxQueryLen

\* C15 (Symmetry of detection): for every span that score(A, B) leaves there
\* is a span of score(B, A) whose A-side covers its B-range and whose B-side
\* covers its A-range.
C15_Symmetry ==
    RkDone =>
        LET mirrored == RabinKarpChecker_score(docB, docA).spans
        IN \A i \in 1..Len(spans) : \E j \in 1..Len(mirrored) :
             /\ mirrored[j].startA <= spans[i].startB
             /\ mirrored[j].endA >= spans[i].endB
             /\ mirrored[j].startB <= spans[i].startA
             /\ mirrored[j].endB >= spans[i].endA

\* the pairs <<i, j>> with A[i..i+8) = B[j..j+8), over all offsets
CommonWindows ==
    {w \in (0..(Len(docA.text) - window)) \X (0..(Len(docB.text) - window)) :
        SubSeq(docA.text, w[1] + 1, w[1] + window)
            = SubSeq(docB.text, w[2] + 1, w[2] + window)}

\* both texts at least 8 long and different, and exactly one common run of
\* length >= 8: the windows of A that occur in B occur at one position each,
\* all at the same distance, and their offsets are consecutive
SingleSharedRun ==
    /\ Len(docA.text) >= window /\ Len(docB.text) >= window
    /\ docA.text # docB.text
    /\ CommonWindows # {}
    /\ \A v, w \in CommonWindows : v[2] - v[1] = w[2] - w[1]
    /\ \A v, w \in CommonWindows : \A i \in v[1]..w[1] : \E u \in CommonWindows : u[1] = i

\* C16 (Single shared run): when both canonical texts are at least 8 long,
\* differ and share exactly one common run of length >= 8, score leaves
\* exactly one span, its A-range and B-range are the maximal common run, and
\* its lineA and lineB are getLineNumber of its startA and startB.
C16_SingleSharedRun ==
    (RkDone /\ SingleSharedRun) =>
        LET first == CHOOSE w \in CommonWindows : \A v \in CommonWindows : w[1] <= v[1]
            last == CHOOSE w \in CommonWindows : \A v \in CommonWindows : w[1] >= v[1]
        IN /\ Len(spans) = 1
           /\ spans[1].startA = first[1] /\ spans[1].endA = last[1] + window
           /\ spans[1].startB = first[2] /\ spans[1].endB = last[2] + window
           /\ spans[1].lineA = getLineNumber(docA, spans[1].startA)
           /\ spans[1].lineB = getLineNumber(docB, spans[1].startB)

\* C17 (No equal positions): when the canonical texts are not identical and
\* no position of their shared prefix holds the same character in both, the
\* exact score is 0 and no span is left.
C17_NoEqualPositions ==
    (/\ RkDone
     /\ docA.text # docB.text
     /\ \A i \in 1..Min(Len(docA.text), Len(docB.text)) : docA.text[i] # docB.text[i]) =>
        /\ FracEq(rkScore, 0)
        /\ spans = <<>>

\* C18 (Matcher statelessness across calls): after any sequence of score
\* calls on one RabinKarpChecker and one JaccardChecker, the scores returned
\* by the last call and the spans that matches() then returns are those of
\* fresh instances given only the last pair.
C18_Stateless ==
    pc = "scored" =>
        LET fresh == RabinKarpChecker_score(docA, docB)
        IN /\ rkScore = fresh.score
           /\ spans = fresh.spans
           /\ jcScore = JaccardChecker_score(docA, docB)

\* a call on identical texts made after a call that filled the shingle sets
\* and left spans
C18_Witness ==
    /\ pc = "scored"
    /\ docA.text = docB.text
    /\ jcShinglesA # {} /\ jcShinglesB # {}
    /\ jcShinglesA # makeShingles(docA.text, k)
    /\ Len(spans) = 1

\* C19 (Short-text fallback): when the canonical texts differ and at least one
\* is shorter than 8, with minLen = min(len(A), len(B)): if minLen > 0 the
\* exact score is 100 * (number of equal positions below minLen) / minLen and
\* exactly one span (0, minLen, 0, minLen) is left; if minLen = 0 the score
\* is 0 and no span is left.
C19_ShortText ==
    (/\ RkDone
     /\ docA.text # docB.text
     /\ (Len(docA.text) < 8 \/ Len(docB.text) < 8)) =>
        LET minLen == Min(Len(docA.text), Len(docB.text))
            equal == Cardinality({i \in 1..minLen : docA.text[i] = docB.text[i]})
        IN IF minLen > 0
             THEN /\ rkScore[2] > 0
                  /\ rkScore[1] * minLen = 100 * equal * rkScore[2]
                  /\ Len(spans) = 1
                  /\ spans[1].startA = 0 /\ spans[1].endA = minLen
                  /\ spans[1].startB = 0 /\ spans[1].endB = minLen
             ELSE FracEq(rkScore, 0) /\ spans = <<>>

C19_Witness ==
    /\ RkDone
    /\ Len(docA.text) = 2 /\ Len(docB.text) > 8
    /\ docA.text[1] = docB.text[1] /\ docA.text[2] # docB.text[2]
    /\ FracEq(rkScore, 50)
    /\ Len(spans) = 1 /\ spans[1].endB = 2

\* C20 (General-case exact score): when the canonical texts differ and both
\* are at least 8 long, the windows examined are A[i..i+8) for i = 0, 4, 8,
\* ... with i + 8 <= len(A), and the exact score is 100 * (number of those
\* windows that occur in B as a contiguous substring) / (number of those
\* windows).
C20_GeneralScore ==
    (/\ RkDone
     /\ docA.text # docB.text
     /\ Len(docA.text) >= 8 /\ Len(docB.text) >= 8) =>
        LET examined == {i \in 0..(Len(docA.text) - 8) : i % 4 = 0}
            found == {i \in examined : \E j \in 0..(Len(docB.text) - 8) :
                        SubSeq(docA.text, i + 1, i + 8) = SubSeq(docB.text, j + 1, j + 8)}
        IN /\ rkScore[2] > 0
           /\ rkScore[1] * Cardinality(examined)
                = 100 * Cardinality(found) * rkScore[2]

C20_Witness ==
    /\ RkDone
    /\ docA.text # docB.text
    /\ Len(docA.text) >= 8 + 3 * 4 /\ Len(docB.text) >= 8
    /\ rkScore[1] > 0 /\ ~FracEq(rkScore, 100)
    /\ \E i \in 1..(Len(spans) - 1) : spans[i].startA = spans[i + 1].startA

\* the polynomial hash of a string computed from scratch: base 257, modulus
\* 1,000,000,007
RECURSIVE PolynomialHash(_)
PolynomialHash(s) ==
    IF s = <<>> THEN 0
    ELSE (MulMod(PolynomialHash(SubSeq(s, 1, Len(s) - 1)), 257) + s[Len(s)]) % 1000000007

\* C21 (Occurrence search exactness): for every text and non-empty pattern,
\* findOccurrences returns in ascending order exactly the positions i with
\* text[i..i+m) = pattern, and the rolled hash t at each position i equals
\* the from-scratch polynomial hash of text[i..i+m).
C21_FindOccurrences ==
    (call.op = "findOccurrences" /\ call.args[2] # <<>>) =>
        LET text == call.args[1]
            pattern == call.args[2]
            m == Len(pattern)
            occ == call.result
        IN /\ \A j \in 1..(Len(occ) - 1) : occ[j] < occ[j + 1]
           /\ {occ[j] : j \in 1..Len(occ)}
                = {i \in 0..(Len(text) - m) : SubSeq(text, i + 1, i + m) = pattern}
           /\ \A i \in 0..(Len(text) - m) :
                hashTrace.rolled[i + 1] = PolynomialHash(SubSeq(text, i + 1, i + m))

\* a call that finds the pattern twice and meets a window with the hash of
\* the pattern but other characters
C21_Witness ==
    /\ call.op = "findOccurrences"
    /\ Len(call.result) >= 2
    /\ LET text == call.args[1]
           pattern == call.args[2]
           m == Len(pattern)
       IN \E i \in 0..(Len(text) - m) :
            /\ hashTrace.rolled[i + 1] = hashTrace.p[m + 1]
            /\ SubSeq(text, i + 1, i + m) # pattern

\* C25 (Hash arithmetic stays bounded): every value stored in h, p and t lies
\* in [0, 1,000,000,007), the subtraction term of the rolling update is never
\* negative, and every product has one factor of at most 257 and the other
\* below twice the modulus, so that it and the sum it enters fit in a signed
\* 64-bit integer.
C25_HashBounded ==
    call.op = "findOccurrences" =>
        /\ \A j \in 1..Len(hashTrace.h) : hashTrace.h[j] >= 0 /\ hashTrace.h[j] < 1000000007
        /\ \A j \in 1..Len(hashTrace.p) : hashTrace.p[j] >= 0 /\ hashTrace.p[j] < 1000000007
        /\ \A j \in 1..Len(hashTrace.t) : hashTrace.t[j] >= 0 /\ hashTrace.t[j] < 1000000007
        /\ \A j \in 1..Len(hashTrace.rolled) :
             hashTrace.rolled[j] >= 0 /\ hashTrace.rolled[j] < 1000000007
        /\ \A j \in 1..Len(hashTrace.terms) : hashTrace.terms[j] >= 0
        /\ \A f \in hashTrace.factors :
             /\ f[1] >= 0 /\ f[2] >= 0
             /\ \/ f[1] <= 257 /\ f[2] < 2000000014
                \/ f[2] <= 257 /\ f[1] < 2000000014

\* a call whose hashes wrapped around the modulus and whose rolling update
\* subtracted more than t held
C25_Witness ==
    /\ call.op = "findOccurrences"
    /\ Len(hashTrace.terms) >= 4
    /\ \E j \in 1..Len(hashTrace.terms) : hashTrace.terms[j] < 1000000007
    /\ \E j \in 1..Len(hashTrace.terms) : hashTrace.terms[j] > 1000000007
    /\ \E j \in 1..Len(hashTrace.h) : hashTrace.h[j] > 257 * 257 * 257

\* the pairs <<i, j>> of an examined window of A (i a multiple of 4) and a
\* position of B where it occurs
SeedPairs ==
    {w \in CommonWindows : w[1] % 4 = 0}

\* C22 (Maximal extension of every occurrence): in the general path, for every
\* examined window of A and every position of B where it occurs, the span
\* handed to merge_or_add contains the seed window, is equal on both sides and
\* is maximal: startA = 0 or startB = 0 or A[startA-1] # B[startB-1], and
\* endA = len(A) or endB = len(B) or A[endA] # B[endB].
C22_MaximalExtension ==
    (/\ RkDone
     /\ docA.text # docB.text
     /\ Len(docA.text) >= 8 /\ Len(docB.text) >= 8) =>
        /\ {<<handed[n].seedA, handed[n].seedB>> : n \in 1..Len(handed)} = SeedPairs
        /\ Len(handed) = Cardinality(SeedPairs)
        /\ \A n \in 1..Len(handed) :
             LET sp == handed[n]
                 A == docA.text
                 B == docB.text
             IN /\ 0 <= sp.startA /\ sp.startA <= sp.seedA
                /\ sp.seedA + 8 <= sp.endA /\ sp.endA <= Len(A)
                /\ 0 <= sp.startB /\ sp.startB <= sp.seedB
                /\ sp.seedB + 8 <= sp.endB /\ sp.endB <= Len(B)
                /\ sp.seedA - sp.startA = sp.seedB - sp.startB
                /\ SubSeq(A, sp.startA + 1, sp.endA) = SubSeq(B, sp.startB + 1, sp.endB)
                /\ sp.startA = 0 \/ sp.startB = 0 \/ A[sp.startA] # B[sp.startB]
                /\ sp.endA = Len(A) \/ sp.endB = Len(B) \/ A[sp.endA + 1] # B[sp.endB + 1]

\* a window found at two positions of B, the second one growing in both
\* directions and stopping at a mismatch on each side
C22_Witness ==
    /\ RkDone
    /\ \E n \in 2..Len(handed) :
         /\ handed[n].seedA = handed[n - 1].seedA
         /\ handed[n].startA < handed[n].seedA
         /\ handed[n].endA > handed[n].seedA + 8
         /\ handed[n].startA > 0 /\ handed[n].startB > 0
         /\ handed[n].endA < Len(docA.text) /\ handed[n].endB < Len(docB.text)

\* two half-open ranges share a position
RangesOverlap(s1, e1, s2, e2) == ~(e1 <= s2 \/ s1 >= e2)

\* the span list after the first n calls of merge_or_add, by the stated
\* policy: the first span overlapping the new one on both ranges is widened
\* to the union, and only without such a span is the new one appended
RECURSIVE MergedByPolicy(_)
MergedByPolicy(n) ==
    IF n = 0 THEN <<>>
    ELSE LET before == MergedByPolicy(n - 1)
             new == handed[n]
             hits == {x \in 1..Len(before) :
                        /\ RangesOverlap(new.startA, new.endA, before[x].startA, before[x].endA)
                        /\ RangesOverlap(new.startB, new.endB, before[x].startB, before[x].endB)}
         IN IF hits = {}
              THEN Append(before, [startA |-> new.startA, endA |-> new.endA,
                                   startB |-> new.startB, endB |-> new.endB])
              ELSE LET x == CHOOSE x \in hits : \A y \in hits : x <= y
                   IN [before EXCEPT ![x] =
                         [startA |-> Min(before[x].startA, new.startA),
                          endA |-> Max(before[x].endA, new.endA),
                          startB |-> Min(before[x].startB, new.startB),
                          endB |-> Max(before[x].endB, new.endB)]]

\* C23 (Merge policy leaves no near-duplicates): merge_or_add widens the first
\* existing span that overlaps the new span on both the A-range and the
\* B-range to the union instead of appending, and after score completes no
\* two spans of the result overlap each other on both their A-range and their
\* B-range.
C23_MergePolicy ==
    RkDone =>
        /\ handed # <<>> =>
             [n \in 1..Len(spans) |->
                 [startA |-> spans[n].startA, endA |-> spans[n].endA,
                  startB |-> spans[n].startB, endB |-> spans[n].endB]]
               = MergedByPolicy(Len(handed))
        /\ \A i, j \in 1..Len(spans) :
             i # j => ~(/\ RangesOverlap(spans[i].startA, spans[i].endA,
                                         spans[j].startA, spans[j].endA)
                        /\ RangesOverlap(spans[i].startB, spans[i].endB,
                                         spans[j].startB, spans[j].endB))

\* C24 (Span bounds): every span left by score has
\* 0 <= startA <= endA <= len(canonical A) and
\* 0 <= startB <= endB <= len(canonical B).
C24_SpanBounds ==
    RkDone => \A i \in 1..Len(spans) :
        /\ 0 <= spans[i].startA /\ spans[i].startA <= spans[i].endA
        /\ spans[i].endA <= Len(docA.text)
        /\ 0 <= spans[i].startB /\ spans[i].startB <= spans[i].endB
        /\ spans[i].endB <= Len(docB.text)

\* spans from the short-text path and from merges in the general path
C24_Witness ==
    /\ RkDone
    /\ Len(spans) >= 3
    /\ Len(handed) > Len(spans)
    /\ \E i \in 1..Len(spans) :
         /\ spans[i].startA > 0 /\ spans[i].endA = Len(docA.text)
         /\ spans[i].startB > 0 /\ spans[i].endB < Len(docB.text)

\* C26 (Raw-slice round trip): for every raw text and every canonical range
\* 0 <= s < e <= len(canonical), the canonical text that preprocess produces
\* from rawSlice(s, e) equals canonical[s..e).
C26_RoundTrip ==
    (/\ call.op = "rawSlice"
     /\ 0 <= call.args[1] /\ call.args[1] < call.args[2]
     /\ call.args[2] <= Len(docA.text)) =>
        preprocess(call.result).out = SubSeq(docA.text, call.args[1] + 1, call.args[2])

\* a slice over a collapsed whitespace run and an upper-case letter, starting
\* after the beginning of the text
C26_Witness ==
    /\ call.op = "rawSlice"
    /\ call.args[1] > 0 /\ call.args[2] = call.args[1] + 2
    /\ call.args[2] <= Len(docA.text)
    /\ Len(call.result) > 2
    /\ docA.text[call.args[1] + 1] = SP
    /\ \E i \in 1..Len(call.result) : call.result[i] = 65


\* C27 (Gauge animation settles on the latest score): once no timer of the
\* gauge is armed, animatedScore is max(0, round(score)) of the latest score,
\* and animatedScore is never written by an interval that an earlier run of
\* the effect started (the last write is always by the current run).
C27_GaugeSettles ==
    pc = "mounted" =>
        /\ timers = {} => animatedScore = targetOf(score)
        /\ writer = effect


\* C28 (Check lifecycle in the Checker page): a step in which handleCheck
\* issues the request or sets isChecking to true does both, and is taken with
\* both files selected and the backend not known to be disconnected; every
\* call that issued the request returns at some time with isChecking false;
\* and checkResult and plagiarismScore change only in the step that ends a
\* call whose request resolved.
C28_CheckLifecycle ==
    /\ [][((check = Null /\ check' # Null) \/ (~isChecking /\ isChecking')) =>
            /\ selectedFile # Null
            /\ secondFile # Null
            /\ isBackendConnected # Some(FALSE)
            /\ check = Null /\ check' # Null /\ check'[1].at = "request"
            /\ ~isChecking /\ isChecking']_vars
    /\ (check # Null) ~> (check = Null /\ ~isChecking)
    /\ [][(checkResult' # checkResult \/ plagiarismScore' # plagiarismScore) =>
            /\ check # Null /\ check' = Null
            /\ finished'.request = "resolved"
            /\ finished'.outcome = "completed"]_vars

\* a call whose request resolved and whose post-processing threw has returned,
\* after an earlier call had set the result
C28_Witness ==
    /\ pc = "page"
    /\ finished = [request |-> "resolved", outcome |-> "caught"]
    /\ check = Null
    /\ ~isChecking
    /\ checkResult # Null
    /\ plagiarismScore # Null

====
